---- MODULE Spec2Model ----
(***************************************************************************)
(* Room / game coordination layer of SpotifyDash: the REST controllers     *)
(* (rooms, games) over the Prisma store and the socket.io handlers.        *)
(* Every store call is an await: a handler is a sequence of atomic steps,  *)
(* one per store call, and the steps of concurrent requests interleave.    *)
(***************************************************************************)
EXTENDS Integers, Sequences, FiniteSets, TLC

VARIABLES
  rooms,      \* Room table: sequence of rows, the row's id is its index
  players,    \* RoomPlayer table: set of rows, each with its own id
  nextPid,    \* next RoomPlayer id the store hands out
  games,      \* Game table: sequence of rows, the row's id is its index
  scores,     \* GameScore table: set of rows, unique per (gameId, playerId)
  answers,    \* GameAnswer table: set of rows
  reqs,       \* HTTP requests in flight: slot -> handler position and locals
  socks,      \* live connections: conn -> fields set on the PlayerSocket
  emits,      \* events emitted by the socket handler that ran last, in order
  client,     \* the client SocketManager's stored reconnection info
  inbox,      \* 'reconnect-to-room' events sent by the client, not yet handled
  now,        \* wall clock, in minutes
  manager     \* the client SocketManager: its fields and the sockets io() made

vars == <<rooms, players, nextPid, games, scores, answers, reqs, socks, emits,
          client, inbox, now, manager>>

store == <<rooms, players, nextPid, games, scores, answers>>

-----------------------------------------------------------------------------
(* Bounds of the model *)

NumChars == 2      \* how many letters of chars Math.random can land on
MaxRooms == 2      \* createRoom requests are accepted while fewer rooms exist
MaxReqs == 2       \* HTTP requests in flight at once
MaxPid == 3        \* RoomPlayer rows ever inserted
MaxGames == 2      \* Game rows ever inserted
NumConns == 2      \* live connections
NumQuestions == 1  \* question numbers a request may name
NumChoices == 2    \* answer options a request may select
MaxReveals == 2    \* times results are posted to one game
TickMinutes == 15  \* minutes the clock advances in one step
MaxClock == 45     \* the clock stops here
MaxInbox == 1      \* reconnect-to-room events in flight
maxPlayers == 2    \* room.maxPlayers, the same for every room
MaxQuestion == 2   \* question numbers a results request may name
SleepMinutes == 750   \* minutes that pass while the server is left alone
MaxSockets == 2       \* sockets the client's SocketManager creates with io()
MaxListeners == 2     \* callbacks registered for one event at a time
MaxSleepClock == 1500 \* the clock of the expiry runs stops here

(* Program constants *)

maxAttempts == 50
CodeLength == 4

\* const maxAge = 30 * 60 * 1000, in minutes
maxAge == 30

\* oneHourAgo = Date.now() - 60 * 60 * 1000, in minutes
oneHour == 60

\* oneDayAgo = Date.now() - 24 * 60 * 60 * 1000, in minutes
oneDay == 1440


Idents == {"h", "p"}
Slots == 1..MaxReqs
Conns == 1..NumConns
Questions == 1..NumQuestions
Choices == 0..(NumChoices - 1)

chars == <<"A", "B", "C", "D", "E", "F", "G", "H", "I", "J", "K", "L", "M",
           "N", "O", "P", "Q", "R", "S", "T", "U", "V", "W", "X", "Y", "Z">>

Range(f) == {f[i] : i \in DOMAIN f}

\* code += chars.charAt(floor(random * chars.length)), CodeLength times
DrawnCodes == [1..CodeLength -> {chars[i] : i \in 1..NumChars}]

\* /^[A-Z]{4}$/
isValidRoomCode(code) ==
  /\ Len(code) = 4
  /\ \A i \in 1..Len(code) : code[i] \in Range(chars)

NoCode == <<>>

lower == <<"a", "b", "c", "d", "e", "f", "g", "h", "i", "j", "k", "l", "m",
           "n", "o", "p", "q", "r", "s", "t", "u", "v", "w", "x", "y", "z">>

\* String.prototype.toUpperCase on a code
toUpperCase(code) ==
  [i \in DOMAIN code |->
     IF \E k \in DOMAIN lower : lower[k] = code[i]
     THEN chars[CHOOSE k \in DOMAIN lower : lower[k] = code[i]]
     ELSE code[i]]

toLowerCase(code) ==
  [i \in DOMAIN code |->
     IF \E k \in DOMAIN chars : chars[k] = code[i]
     THEN lower[CHOOSE k \in DOMAIN chars : chars[k] = code[i]]
     ELSE code[i]]

-----------------------------------------------------------------------------
(* The store *)

\* the place of a row that room.deleteMany has removed: ids are not reused
DeletedRoom ==
  [code |-> NoCode, hostId |-> "", status |-> "DELETED", isActive |-> FALSE,
   maxPlayers |-> 0, updatedAt |-> 0]

RoomIds == {r \in 1..Len(rooms) : rooms[r] /= DeletedRoom}

\* prisma.room.findUnique({ where: { code } }): 0 when there is no such row
findRoomByCode(code) ==
  IF \E r \in RoomIds : rooms[r].code = code
  THEN CHOOSE r \in RoomIds : rooms[r].code = code
  ELSE 0

roomPlayers(r) == {p \in players : p.roomId = r}

\* room.create on a code column that is not unique
roomCreateUnchecked(code) == TRUE

\* room.create: the code column is unique, a second row with the code is refused
roomCreateAllowed(code) == findRoomByCode(code) = 0

newRoom(code, hostId) ==
  [code |-> code, hostId |-> hostId, status |-> "WAITING", isActive |-> TRUE,
   maxPlayers |-> maxPlayers, updatedAt |-> now]

newPlayer(id, r, spotifyId, isHost, isReady) ==
  [id |-> id, roomId |-> r, spotifyId |-> spotifyId, isHost |-> isHost,
   isReady |-> isReady, musicData |-> FALSE]

-----------------------------------------------------------------------------
(* HTTP requests *)

Idle ==
  [op |-> "none", pc |-> "idle", ident |-> "", code |-> NoCode, attempts |-> 0,
   roomId |-> 0, playerId |-> 0, isHost |-> FALSE, readPlayers |-> {},
   gameId |-> 0, q |-> 0, sel |-> 0, key |-> 0, readAnswers |-> {},
   status |-> 0, err |-> "", out |-> 0]

busy(s) == reqs[s].pc /= "idle"

\* a new request takes the lowest free slot; a client collects the responses
\* that are ready before the next request is sent
freeSlot(s) ==
  /\ ~busy(s)
  /\ \A t \in Slots : t < s => busy(t)
  /\ \A t \in Slots : reqs[t].pc /= "done"

\* res.status(status).json(...): the handler's locals are gone, the response
\* names the request and carries the status and the message
respond(r, status, err) ==
  [Idle EXCEPT !.op = r.op, !.pc = "done", !.ident = r.ident, !.roomId = r.roomId,
               !.gameId = r.gameId, !.q = r.q, !.status = status, !.err = err]

creating == {s \in Slots : reqs[s].op = "createRoom" /\ reqs[s].pc \in {"gen", "tx"}}

\* requests in flight that may still insert a RoomPlayer row
inserting == creating \cup {s \in Slots : reqs[s].op = "join" /\ reqs[s].pc = "create"}

pidsLeft == nextPid + Cardinality(inserting) <= MaxPid

\* POST /rooms: the request arrives with spotifyId and displayName set
CreateRoomBegin(s, ident) ==
  /\ freeSlot(s)
  /\ Len(rooms) + Cardinality(creating) < MaxRooms
  /\ pidsLeft
  /\ reqs' = [reqs EXCEPT ![s] = [Idle EXCEPT !.op = "createRoom", !.pc = "gen",
                                               !.ident = ident]]
  /\ UNCHANGED <<store, socks, emits, client, manager, inbox, now>>

\* a loop that counts its attempts and never gives up
afterCollisionNoLimit(r) == [r EXCEPT !.attempts = r.attempts + 1]

\* the loop exit of generateUniqueRoomCode after a collision
afterCollision(r) ==
  IF r.attempts + 1 < maxAttempts
  THEN [r EXCEPT !.attempts = r.attempts + 1]
  ELSE [respond(r, 503, "Service temporarily unavailable - please try again")
          EXCEPT !.attempts = r.attempts + 1]

\* one turn of the loop of generateUniqueRoomCode: draw a code, look it up
GenerateAttempt(s, code) ==
  /\ reqs[s].op = "createRoom" /\ reqs[s].pc = "gen"
  /\ reqs' = [reqs EXCEPT ![s] =
                IF findRoomByCode(code) = 0
                THEN [reqs[s] EXCEPT !.pc = "tx", !.code = code]
                ELSE afterCollision(reqs[s])]
  /\ UNCHANGED <<store, socks, emits, client, manager, inbox, now>>

\* prisma.$transaction: room.create, then roomPlayer.create for the host
CreateRoomTx(s) ==
  /\ reqs[s].op = "createRoom" /\ reqs[s].pc = "tx"
  /\ IF roomCreateAllowed(reqs[s].code)
     THEN /\ rooms' = Append(rooms, newRoom(reqs[s].code, reqs[s].ident))
          /\ players' = players \cup
                {newPlayer(nextPid, Len(rooms) + 1, reqs[s].ident, TRUE, TRUE)}
          /\ nextPid' = nextPid + 1
          /\ reqs' = [reqs EXCEPT ![s] =
                        [respond(reqs[s], 200, "") EXCEPT
                           !.roomId = Len(rooms) + 1, !.code = reqs[s].code,
                           !.out = nextPid]]
     ELSE /\ reqs' = [reqs EXCEPT ![s] = respond(reqs[s], 500, "Failed to create room")]
          /\ UNCHANGED <<rooms, players, nextPid>>
  /\ UNCHANGED <<games, scores, answers, socks, emits, client, manager, inbox, now>>

\* the response has been sent: the slot is free again
Finish(s) ==
  /\ reqs[s].pc = "done"
  /\ reqs' = [reqs EXCEPT ![s] = Idle]
  /\ UNCHANGED <<store, socks, emits, client, manager, inbox, now>>

-----------------------------------------------------------------------------
(* Room registry: src/server/src/controllers/roomController.ts *)

\* a well-formed code that generateUniqueRoomCode never draws in this model
AbsentCode == [i \in 1..CodeLength |-> chars[26]]

\* the codes a request may name: a room's code as stored or typed in lower
\* case, or the code of no room
TargetCodes ==
  {rooms[r].code : r \in RoomIds} \cup {toLowerCase(rooms[r].code) : r \in RoomIds}
    \cup {AbsentCode}

findPlayer(r, spotifyId) ==
  IF \E p \in roomPlayers(r) : p.spotifyId = spotifyId
  THEN CHOOSE p \in roomPlayers(r) : p.spotifyId = spotifyId
  ELSE [id |-> 0]

playerById(id) == CHOOSE p \in players : p.id = id

playerExists(id) == \E p \in players : p.id = id

activeGameStatuses == {"STARTING", "IN_PROGRESS", "PAUSED"}

\* games: { where: { status: { in: ['STARTING', 'IN_PROGRESS', 'PAUSED'] } } }
activeGames(r) ==
  {g \in 1..Len(games) : games[g].roomId = r /\ games[g].status \in activeGameStatuses}

\* GET /rooms/:code
GetRoom(s, code) ==
  /\ freeSlot(s)
  /\ LET r == findRoomByCode(toUpperCase(code))
         q == [Idle EXCEPT !.op = "getRoom", !.code = code, !.roomId = r]
     IN reqs' = [reqs EXCEPT ![s] =
                   IF r = 0 THEN respond(q, 404, "Room not found")
                   ELSE IF ~rooms[r].isActive
                     THEN respond(q, 410, "Room is no longer active")
                   ELSE respond(q, 200, "")]
  /\ UNCHANGED <<store, socks, emits, client, manager, inbox, now>>

\* the join that checks the room's status before it looks for the member
joinDecisionStatusFirst(q, r, spotifyId) ==
  IF r = 0 THEN respond(q, 404, "Room not found")
  ELSE IF ~rooms[r].isActive THEN respond(q, 410, "Room is no longer active")
  ELSE IF rooms[r].status \in {"IN_GAME", "STARTING"}
    THEN respond(q, 409, "Cannot join - game already in progress")
  ELSE IF findPlayer(r, spotifyId).id /= 0
    THEN [respond(q, 200, "") EXCEPT !.out = findPlayer(r, spotifyId).id]
  ELSE IF Cardinality(roomPlayers(r)) >= rooms[r].maxPlayers
    THEN respond(q, 409, "Room is full")
  ELSE [q EXCEPT !.pc = "create"]

\* what POST /rooms/:code/join answers from the room it read
joinDecision(q, r, spotifyId) ==
  IF r = 0 THEN respond(q, 404, "Room not found")
  ELSE IF ~rooms[r].isActive THEN respond(q, 410, "Room is no longer active")
  ELSE IF findPlayer(r, spotifyId).id /= 0
    THEN [respond(q, 200, "") EXCEPT !.out = findPlayer(r, spotifyId).id]
  ELSE IF rooms[r].status \in {"IN_GAME", "STARTING"}
    THEN respond(q, 409, "Cannot join - game already in progress")
  ELSE IF Cardinality(roomPlayers(r)) >= rooms[r].maxPlayers
    THEN respond(q, 409, "Room is full")
  ELSE [q EXCEPT !.pc = "create"]

\* POST /rooms/:code/join up to its answer or its roomPlayer.create
JoinRead(s, code, spotifyId) ==
  /\ freeSlot(s)
  /\ pidsLeft
  /\ LET r == findRoomByCode(toUpperCase(code))
         q == [Idle EXCEPT !.op = "join", !.code = code, !.ident = spotifyId,
                           !.roomId = r]
     IN reqs' = [reqs EXCEPT ![s] = joinDecision(q, r, spotifyId)]
  /\ UNCHANGED <<store, socks, emits, client, manager, inbox, now>>

\* roomPlayer.create: (roomId, spotifyId) is unique and the row refers to its room
playerCreateAllowed(r, spotifyId) == r \in RoomIds /\ findPlayer(r, spotifyId).id = 0

\* a join that copies the host flag of the room's creator
joinedPlayerAsHost(id, r, spotifyId) == newPlayer(id, r, spotifyId, TRUE, FALSE)

\* the row POST /rooms/:code/join inserts
joinedPlayer(id, r, spotifyId) == newPlayer(id, r, spotifyId, FALSE, FALSE)

\* POST /rooms/:code/join: roomPlayer.create and the answer
JoinCreate(s) ==
  /\ reqs[s].op = "join" /\ reqs[s].pc = "create"
  /\ IF playerCreateAllowed(reqs[s].roomId, reqs[s].ident)
     THEN /\ players' = players \cup
                          {joinedPlayer(nextPid, reqs[s].roomId, reqs[s].ident)}
          /\ nextPid' = nextPid + 1
          /\ reqs' = [reqs EXCEPT ![s] =
                        [respond(reqs[s], 200, "") EXCEPT !.out = nextPid]]
     ELSE /\ reqs' = [reqs EXCEPT ![s] = respond(reqs[s], 500, "Failed to join room")]
          /\ UNCHANGED <<players, nextPid>>
  /\ UNCHANGED <<rooms, games, scores, answers, socks, emits, client, manager, inbox, now>>

\* roomPlayer.update({ data: { musicData, isReady: true } })
sharedPlayer(p) == [p EXCEPT !.musicData = TRUE, !.isReady = TRUE]

\* POST /rooms/:code/share-data. The room's id never changes and no room row is
\* deleted here, so the lookup and the update are taken as one step.
ShareData(s, code, spotifyId) ==
  /\ freeSlot(s)
  /\ LET r == findRoomByCode(toUpperCase(code))
         q == [Idle EXCEPT !.op = "share", !.code = code, !.ident = spotifyId,
                           !.roomId = r]
         p == findPlayer(r, spotifyId)
     IN IF r = 0
        THEN /\ reqs' = [reqs EXCEPT ![s] = respond(q, 404, "Room not found")]
             /\ UNCHANGED players
        ELSE IF p.id = 0
        THEN /\ reqs' = [reqs EXCEPT ![s] =
                           respond(q, 500, "Failed to share music data")]
             /\ UNCHANGED players
        ELSE /\ players' = (players \ {p}) \cup {sharedPlayer(p)}
             /\ reqs' = [reqs EXCEPT ![s] = respond(q, 200, "")]
  /\ UNCHANGED <<rooms, nextPid, games, scores, answers, socks, emits, client, manager,
                 inbox, now>>

\* DELETE /rooms/:code/leave up to its write
LeaveRead(s, code, spotifyId) ==
  /\ freeSlot(s)
  /\ LET r == findRoomByCode(toUpperCase(code))
         q == [Idle EXCEPT !.op = "leave", !.code = code, !.ident = spotifyId,
                           !.roomId = r]
         p == findPlayer(r, spotifyId)
     IN reqs' = [reqs EXCEPT ![s] =
                   IF r = 0 THEN respond(q, 404, "Room not found")
                   ELSE IF p.id = 0 THEN respond(q, 404, "Player not in room")
                   ELSE [q EXCEPT !.pc = "write", !.playerId = p.id,
                                  !.isHost = p.isHost]]
  /\ UNCHANGED <<store, socks, emits, client, manager, inbox, now>>

\* room.update({ data: { isActive: false, status: 'FINISHED' } })
closedRoom(room) ==
  [room EXCEPT !.isActive = FALSE, !.status = "FINISHED", !.updatedAt = now]

\* a delete that takes every row of the member's room with it
playersAfterLeaveRoom(id) == {p \in players : p.roomId /= playerById(id).roomId}

\* the rows roomPlayer.delete({ where: { id } }) leaves
playersAfterLeave(id) == {p \in players : p.id /= id}

\* DELETE /rooms/:code/leave: the host closes the room, a member's row is
\* deleted; an update or delete of a row that is gone throws
LeaveWrite(s) ==
  /\ reqs[s].op = "leave" /\ reqs[s].pc = "write"
  /\ IF reqs[s].isHost /\ reqs[s].roomId \in RoomIds
     THEN /\ rooms' = [rooms EXCEPT ![reqs[s].roomId] = closedRoom(@)]
          /\ reqs' = [reqs EXCEPT ![s] = respond(reqs[s], 200, "")]
          /\ UNCHANGED players
     ELSE IF ~reqs[s].isHost /\ playerExists(reqs[s].playerId)
     THEN /\ players' = playersAfterLeave(reqs[s].playerId)
          /\ reqs' = [reqs EXCEPT ![s] = respond(reqs[s], 200, "")]
          /\ UNCHANGED rooms
     ELSE /\ reqs' = [reqs EXCEPT ![s] = respond(reqs[s], 500, "Failed to leave room")]
          /\ UNCHANGED <<rooms, players>>
  /\ UNCHANGED <<nextPid, games, scores, answers, socks, emits, client, manager, inbox, now>>

-----------------------------------------------------------------------------
(* Game lifecycle: the games controller *)

\* endedAt of a game that has not ended: null
NoTime == -1

\* the place of a row that game.deleteMany has removed
DeletedGame ==
  [roomId |-> 0, status |-> "DELETED", currentQuestion |-> 0, endedAt |-> NoTime]

starting == {s \in Slots : reqs[s].op = "start" /\ reqs[s].pc = "tx"}

\* the checks of POST /games/start on the room it read
startDecision(q, r, spotifyId) ==
  IF r = 0 THEN respond(q, 404, "Room not found")
  ELSE IF ~\E p \in roomPlayers(r) : p.spotifyId = spotifyId /\ p.isHost
    THEN respond(q, 403, "Only the host can start the game")
  ELSE IF activeGames(r) /= {}
    THEN respond(q, 409, "Game already in progress")
  ELSE IF \E p \in roomPlayers(r) : ~p.isReady \/ ~p.musicData
    THEN respond(q, 409, "Not all players are ready")
  ELSE IF Cardinality(roomPlayers(r)) < 2
    THEN respond(q, 409, "At least 2 players required to start")
  ELSE [q EXCEPT !.pc = "tx", !.readPlayers = {p.id : p \in roomPlayers(r)}]

\* POST /games/start up to its transaction
StartRead(s, code, spotifyId) ==
  /\ freeSlot(s)
  /\ LET r == findRoomByCode(toUpperCase(code))
         q == [Idle EXCEPT !.op = "start", !.code = code, !.ident = spotifyId,
                           !.roomId = r]
     IN /\ startDecision(q, r, spotifyId).pc = "tx"
             => Len(games) + Cardinality(starting) < MaxGames
        /\ reqs' = [reqs EXCEPT ![s] = startDecision(q, r, spotifyId)]
  /\ UNCHANGED <<store, socks, emits, client, manager, inbox, now>>

\* tx.game.create({ data: { roomId, status: 'STARTING', ... } })
newGame(r) ==
  [roomId |-> r, status |-> "STARTING", currentQuestion |-> 0, endedAt |-> NoTime]

\* tx.gameScore.create({ data: { gameId, playerId, totalScore: 0, ... } })
newScore(g, pid) ==
  [gameId |-> g, playerId |-> pid, totalScore |-> 0, correctAnswers |-> 0,
   totalAnswers |-> 0]

\* tx.room.update({ data: { status: 'IN_GAME' } })
startedRoom(room) == [room EXCEPT !.status = "IN_GAME", !.updatedAt = now]

\* a start whose writes are not in one transaction: the room update and the
\* game row stay when a score row cannot be created
StartTxNoRollback(s) ==
  /\ reqs[s].op = "start" /\ reqs[s].pc = "tx"
  /\ rooms' = [rooms EXCEPT ![reqs[s].roomId] = startedRoom(@)]
  /\ games' = Append(games, newGame(reqs[s].roomId))
  /\ scores' = scores \cup
                 {newScore(Len(games) + 1, pid) :
                    pid \in {id \in reqs[s].readPlayers : playerExists(id)}}
  /\ reqs' = [reqs EXCEPT ![s] =
                IF \A pid \in reqs[s].readPlayers : playerExists(pid)
                THEN [respond(reqs[s], 200, "") EXCEPT !.out = Len(games) + 1]
                ELSE respond(reqs[s], 500, "Failed to start game")]
  /\ UNCHANGED <<players, nextPid, answers, socks, emits, client, manager, inbox, now>>

\* POST /games/start: the transaction. A score row refers to its player row:
\* when a player read before has left, the create fails and all is rolled back.
StartTx(s) ==
  /\ reqs[s].op = "start" /\ reqs[s].pc = "tx"
  /\ IF reqs[s].roomId \in RoomIds /\ \A pid \in reqs[s].readPlayers : playerExists(pid)
     THEN /\ rooms' = [rooms EXCEPT ![reqs[s].roomId] = startedRoom(@)]
          /\ games' = Append(games, newGame(reqs[s].roomId))
          /\ scores' = scores \cup
                         {newScore(Len(games) + 1, pid) : pid \in reqs[s].readPlayers}
          /\ reqs' = [reqs EXCEPT ![s] =
                        [respond(reqs[s], 200, "") EXCEPT !.out = Len(games) + 1]]
     ELSE /\ reqs' = [reqs EXCEPT ![s] = respond(reqs[s], 500, "Failed to start game")]
          /\ UNCHANGED <<rooms, games, scores>>
  /\ UNCHANGED <<players, nextPid, answers, socks, emits, client, manager, inbox, now>>

-----------------------------------------------------------------------------
(* Answers and results: the games controller *)

GameIds == {g \in 1..Len(games) : games[g] /= DeletedGame}

\* the games a request may name: a game's id, or the id of no game
TargetGames == GameIds \cup {0}

\* gameAnswer.findUnique({ where: { gameId_playerId_questionNumber } })
findAnswer(g, pid, q) ==
  {a \in answers : a.gameId = g /\ a.playerId = pid /\ a.questionNumber = q}

\* a submission that does not look at the game's status
submitDecisionAnyStatus(r, g, spotifyId) ==
  IF g \notin GameIds THEN respond(r, 404, "Game not found")
  ELSE IF findPlayer(games[g].roomId, spotifyId).id = 0
    THEN respond(r, 404, "Player not in game")
  ELSE [r EXCEPT !.pc = "check", !.roomId = games[g].roomId,
                 !.playerId = findPlayer(games[g].roomId, spotifyId).id]

\* the checks of POST /games/:gameId/answer on the game it read
submitDecision(r, g, spotifyId) ==
  IF g \notin GameIds THEN respond(r, 404, "Game not found")
  ELSE IF games[g].status /= "IN_PROGRESS" THEN respond(r, 409, "Game not in progress")
  ELSE IF findPlayer(games[g].roomId, spotifyId).id = 0
    THEN respond(r, 404, "Player not in game")
  ELSE [r EXCEPT !.pc = "check", !.roomId = games[g].roomId,
                 !.playerId = findPlayer(games[g].roomId, spotifyId).id]

\* POST /games/:gameId/answer up to the lookup of an earlier answer
SubmitRead(s, g, spotifyId, q, sel) ==
  /\ freeSlot(s)
  /\ LET r == [Idle EXCEPT !.op = "answer", !.ident = spotifyId, !.gameId = g,
                           !.q = q, !.sel = sel]
     IN reqs' = [reqs EXCEPT ![s] = submitDecision(r, g, spotifyId)]
  /\ UNCHANGED <<store, socks, emits, client, manager, inbox, now>>

\* POST /games/:gameId/answer: "Check if answer already submitted"
SubmitCheck(s) ==
  /\ reqs[s].op = "answer" /\ reqs[s].pc = "check"
  /\ reqs' = [reqs EXCEPT ![s] =
                IF findAnswer(reqs[s].gameId, reqs[s].playerId, reqs[s].q) /= {}
                THEN respond(reqs[s], 409, "Answer already submitted for this question")
                ELSE [reqs[s] EXCEPT !.pc = "create"]]
  /\ UNCHANGED <<store, socks, emits, client, manager, inbox, now>>

\* gameAnswer.create: (gameId, playerId, questionNumber) is unique, and the row
\* refers to its player row
answerCreateAllowed(g, pid, q) == findAnswer(g, pid, q) = {} /\ playerExists(pid)

newAnswer(g, pid, q, sel) ==
  [gameId |-> g, playerId |-> pid, questionNumber |-> q, selectedAnswer |-> sel,
   isCorrect |-> FALSE]

\* POST /games/:gameId/answer: gameAnswer.create and the answer
SubmitCreate(s) ==
  /\ reqs[s].op = "answer" /\ reqs[s].pc = "create"
  /\ IF answerCreateAllowed(reqs[s].gameId, reqs[s].playerId, reqs[s].q)
     THEN /\ answers' = answers \cup
                          {newAnswer(reqs[s].gameId, reqs[s].playerId, reqs[s].q,
                                     reqs[s].sel)}
          /\ reqs' = [reqs EXCEPT ![s] = respond(reqs[s], 200, "")]
     ELSE /\ reqs' = [reqs EXCEPT ![s] = respond(reqs[s], 500, "Failed to submit answer")]
          /\ UNCHANGED answers
  /\ UNCHANGED <<rooms, players, nextPid, games, scores, socks, emits, client, manager,
                 inbox, now>>

\* the checks of POST /games/:gameId/results on the game it read
resultsDecision(r, g, spotifyId, q) ==
  IF g \notin GameIds THEN respond(r, 404, "Game not found")
  ELSE IF ~\E p \in roomPlayers(games[g].roomId) : p.spotifyId = spotifyId /\ p.isHost
    THEN respond(r, 403, "Only the host can submit results")
  ELSE [r EXCEPT !.pc = "tx", !.roomId = games[g].roomId,
                 !.readAnswers = {a \in answers : a.gameId = g /\ a.questionNumber = q}]

revealing(g) == {s \in Slots : reqs[s].op = "results" /\ reqs[s].pc = "tx"
                                /\ reqs[s].gameId = g}

revealsLeft(g) ==
  \A sc \in scores :
    sc.gameId = g => sc.totalAnswers + Cardinality(revealing(g)) < MaxReveals

\* POST /games/:gameId/results up to its transaction
ResultsRead(s, g, spotifyId, q, key) ==
  /\ freeSlot(s)
  /\ revealsLeft(g)
  /\ LET r == [Idle EXCEPT !.op = "results", !.ident = spotifyId, !.gameId = g,
                           !.q = q, !.key = key]
     IN reqs' = [reqs EXCEPT ![s] = resultsDecision(r, g, spotifyId, q)]
  /\ UNCHANGED <<store, socks, emits, client, manager, inbox, now>>

\* const score = isCorrect ? 100 : 0
pointsFor(a, key) == IF a.selectedAnswer = key THEN 100 ELSE 0

\* tx.gameAnswer.update({ where: { id }, data: { isCorrect } })
resolvedAnswer(a, read, key) ==
  IF \E b \in read : b.gameId = a.gameId /\ b.playerId = a.playerId
                     /\ b.questionNumber = a.questionNumber
  THEN [a EXCEPT !.isCorrect = (CHOOSE b \in read :
                                   b.gameId = a.gameId /\ b.playerId = a.playerId
                                   /\ b.questionNumber = a.questionNumber).selectedAnswer = key]
  ELSE a

\* tx.gameScore.update: totalScore, correctAnswers and totalAnswers incremented
\* once for every answer of the player among those read
revealedScore(sc, read, key) ==
  IF \E a \in read : a.playerId = sc.playerId
  THEN LET a == CHOOSE b \in read : b.playerId = sc.playerId
       IN [sc EXCEPT !.totalScore = @ + pointsFor(a, key),
                     !.correctAnswers = IF a.selectedAnswer = key THEN @ + 1 ELSE @,
                     !.totalAnswers = @ + 1]
  ELSE sc

\* every update of the transaction finds its row
resultsTxAllowed(g, read) ==
  /\ \A a \in read : a \in {[b EXCEPT !.isCorrect = a.isCorrect] : b \in answers}
  /\ \A a \in read : \E sc \in scores : sc.gameId = g /\ sc.playerId = a.playerId

\* POST /games/:gameId/results: the transaction
ResultsTx(s) ==
  /\ reqs[s].op = "results" /\ reqs[s].pc = "tx"
  /\ LET g == reqs[s].gameId
         read == reqs[s].readAnswers
     IN IF resultsTxAllowed(g, read)
        THEN /\ answers' = {resolvedAnswer(a, read, reqs[s].key) : a \in answers}
             /\ scores' = {IF sc.gameId = g THEN revealedScore(sc, read, reqs[s].key)
                                             ELSE sc : sc \in scores}
             /\ games' = [games EXCEPT ![g].currentQuestion = reqs[s].q]
             /\ reqs' = [reqs EXCEPT ![s] = respond(reqs[s], 200, "")]
        ELSE /\ reqs' = [reqs EXCEPT ![s] =
                           respond(reqs[s], 500, "Failed to update results")]
             /\ UNCHANGED <<answers, scores, games>>
  /\ UNCHANGED <<rooms, players, nextPid, socks, emits, client, manager, inbox, now>>

\* an end that any identity may ask for
endDecisionAnyone(r, g, spotifyId) ==
  IF g \notin GameIds THEN respond(r, 404, "Game not found")
  ELSE [r EXCEPT !.pc = "tx", !.roomId = games[g].roomId]

\* the checks of POST /games/:gameId/end on the game it read
endDecision(r, g, spotifyId) ==
  IF g \notin GameIds THEN respond(r, 404, "Game not found")
  ELSE IF ~\E p \in roomPlayers(games[g].roomId) : p.spotifyId = spotifyId /\ p.isHost
    THEN respond(r, 403, "Only the host can end the game")
  ELSE [r EXCEPT !.pc = "tx", !.roomId = games[g].roomId]

\* POST /games/:gameId/end up to its transaction
EndRead(s, g, spotifyId) ==
  /\ freeSlot(s)
  /\ LET r == [Idle EXCEPT !.op = "end", !.ident = spotifyId, !.gameId = g]
     IN reqs' = [reqs EXCEPT ![s] = endDecision(r, g, spotifyId)]
  /\ UNCHANGED <<store, socks, emits, client, manager, inbox, now>>

\* tx.game.update({ data: { status: 'FINISHED', endedAt: new Date() } })
endedGame(game) == [game EXCEPT !.status = "FINISHED", !.endedAt = now]

\* tx.room.update({ data: { status: 'WAITING' } })
reopenedRoom(room) == [room EXCEPT !.status = "WAITING", !.updatedAt = now]

\* POST /games/:gameId/end: the transaction; an update of a row that is gone
\* throws and the transaction is rolled back
EndTx(s) ==
  /\ reqs[s].op = "end" /\ reqs[s].pc = "tx"
  /\ IF reqs[s].gameId \in GameIds /\ reqs[s].roomId \in RoomIds
     THEN /\ games' = [games EXCEPT ![reqs[s].gameId] = endedGame(@)]
          /\ rooms' = [rooms EXCEPT ![reqs[s].roomId] = reopenedRoom(@)]
          /\ reqs' = [reqs EXCEPT ![s] = respond(reqs[s], 200, "")]
     ELSE /\ reqs' = [reqs EXCEPT ![s] = respond(reqs[s], 500, "Failed to end game")]
          /\ UNCHANGED <<games, rooms>>
  /\ UNCHANGED <<players, nextPid, scores, answers, socks, emits, client, manager, inbox, now>>

\* The step Game: STARTING -> IN_PROGRESS of the game lifecycle. The client asks
\* for it ('start-game'); no handler of the server makes it.
GameBegins(g) ==
  /\ g \in GameIds
  /\ games[g].status = "STARTING"
  /\ games' = [games EXCEPT ![g].status = "IN_PROGRESS"]
  /\ UNCHANGED <<rooms, players, nextPid, scores, answers, reqs, socks, emits,
                 client, manager, inbox, now>>

-----------------------------------------------------------------------------
(* Background expiry: runScheduledCleanup *)

\* an expiry that takes every room not updated for a day, whatever its state
expiredRoomAnyState(room) == room.updatedAt < now - oneDay

\* room.deleteMany({ where: { OR: [{ isActive: false, updatedAt: { lt: oneDayAgo } },
\*                                 { status: 'FINISHED', updatedAt: { lt: oneDayAgo } }] } })
expiredRoom(room) ==
  IF ~room.isActive THEN room.updatedAt < now - oneDay
  ELSE IF room.status = "FINISHED" THEN room.updatedAt < now - oneDay
  ELSE FALSE

\* game.deleteMany({ where: { status: 'FINISHED', endedAt: { lt: oneHourAgo } } })
expiredGame(game) ==
  /\ game.status = "FINISHED"
  /\ game.endedAt /= NoTime
  /\ game.endedAt < now - oneHour

expiredGames == {g \in GameIds : expiredGame(games[g])}

expiredRooms == {r \in RoomIds : expiredRoom(rooms[r])}

\* the score or answer rows left when these games are deleted: they go with
\* their game
gameRowsKept(rows, gone) == {x \in rows : x.gameId \notin gone}

\* the membership rows left when these rooms are deleted: they go with their room
memberRowsKept(gone) == {p \in players : p.roomId \notin gone}

\* runScheduledCleanup up to its second statement: the expired games are deleted
CleanupGames(s) ==
  /\ freeSlot(s)
  /\ games' = [g \in DOMAIN games |->
                 IF g \in expiredGames THEN DeletedGame ELSE games[g]]
  /\ scores' = gameRowsKept(scores, expiredGames)
  /\ answers' = gameRowsKept(answers, expiredGames)
  /\ reqs' = [reqs EXCEPT ![s] = [Idle EXCEPT !.op = "cleanup", !.pc = "rooms"]]
  /\ UNCHANGED <<rooms, players, nextPid, socks, emits, client, manager, inbox, now>>

\* runScheduledCleanup: the expired rooms are deleted; the task answers nobody
CleanupRooms(s) ==
  /\ reqs[s].op = "cleanup" /\ reqs[s].pc = "rooms"
  /\ rooms' = [r \in DOMAIN rooms |->
                 IF r \in expiredRooms THEN DeletedRoom ELSE rooms[r]]
  /\ players' = memberRowsKept(expiredRooms)
  /\ reqs' = [reqs EXCEPT ![s] = Idle]
  /\ UNCHANGED <<nextPid, games, scores, answers, socks, emits, client, manager, inbox, now>>

\* hours pass between two requests: no request is in flight meanwhile
Sleep ==
  /\ \A s \in Slots : ~busy(s)
  /\ now + SleepMinutes <= MaxSleepClock
  /\ now' = now + SleepMinutes
  /\ UNCHANGED <<store, reqs, socks, emits, client, manager, inbox>>

-----------------------------------------------------------------------------
(* Live connections: setupGameSocket *)

\* a PlayerSocket as io.on('connection') hands it over; joined is the set of
\* socket.io rooms it is in
NewSocket ==
  [connected |-> FALSE, roomCode |-> NoCode, spotifyId |-> "", playerId |-> 0,
   joined |-> {}]

\* the connections a broadcast to the socket.io room reaches
inGroup(code) == {c \in Conns : socks[c].connected /\ code \in socks[c].joined}

event(ev, to) == [ev |-> ev, to |-> to]

\* socket.on('join-room'), from "Store connection info" on: what it emits
joinRoomEmits(c, code) ==
  << event("player-connected", inGroup(code) \ {c}),
     event("room-state", {c}) >>

\* socket.on('join-room'), from "Store connection info" on: the socket after it
joinRoomSocket(sock, code, spotifyId, playerId) ==
  [sock EXCEPT !.roomCode = code, !.spotifyId = spotifyId, !.playerId = playerId,
               !.joined = @ \cup {code}]

\* socket.on('join-room') on the data { roomCode, spotifyId, ... }: the other
\* fields of the data (reconnectionToken, deviceId, musicData) are not read
joinRoomHandler(c, code, spotifyId) ==
  LET r == findRoomByCode(toUpperCase(code))
      p == findPlayer(r, spotifyId)
  IN IF r = 0
     THEN /\ emits' = << event("error: Room not found", {c}) >>
          /\ UNCHANGED socks
     ELSE IF p.id = 0
     THEN /\ emits' = << event("error: Player not in room", {c}) >>
          /\ UNCHANGED socks
     ELSE /\ socks' = [socks EXCEPT ![c] =
                         joinRoomSocket(@, rooms[r].code, spotifyId, p.id)]
          /\ emits' = joinRoomEmits(c, rooms[r].code)

\* io.on('connection')
SockConnect(c) ==
  /\ ~socks[c].connected
  /\ socks' = [socks EXCEPT ![c] = [NewSocket EXCEPT !.connected = TRUE]]
  /\ emits' = <<>>
  /\ UNCHANGED <<store, reqs, client, manager, inbox, now>>

\* a join-room event arrives on connection c
SockJoinRoom(c, code, spotifyId) ==
  /\ socks[c].connected
  /\ joinRoomHandler(c, code, spotifyId)
  /\ UNCHANGED <<store, reqs, client, manager, inbox, now>>

\* roomPlayer.update({ data: { isReady } })
readyPlayer(p, isReady) == [p EXCEPT !.isReady = isReady]

\* socket.on('player-ready')
SockPlayerReady(c, isReady) ==
  /\ socks[c].connected
  /\ LET r == findRoomByCode(socks[c].roomCode)
         p == findPlayer(r, socks[c].spotifyId)
     IN IF socks[c].roomCode = NoCode \/ socks[c].spotifyId = ""
        THEN /\ emits' = << event("error: Not connected to room", {c}) >>
             /\ UNCHANGED players
        ELSE IF r = 0 \/ p.id = 0
        THEN /\ emits' = << event("error: Failed to update ready status", {c}) >>
             /\ UNCHANGED players
        ELSE /\ players' = (players \ {p}) \cup {readyPlayer(p, isReady)}
             /\ emits' = << event("player-ready-update", inGroup(socks[c].roomCode)) >>
  /\ UNCHANGED <<rooms, nextPid, games, scores, answers, reqs, socks, client, manager,
                 inbox, now>>

\* socket.to(socket.roomCode).emit('player-disconnected', { playerId, isHost })
playerDisconnected(p, to) ==
  [ev |-> "player-disconnected", to |-> to, playerId |-> p.id, isHost |-> p.isHost]

\* a disconnect that also deletes the membership of the connection
SockDisconnectRemoving(c) ==
  /\ socks[c].connected
  /\ players' = {p \in players : p.id /= socks[c].playerId}
  /\ emits' = <<>>
  /\ socks' = [socks EXCEPT ![c] = NewSocket]
  /\ UNCHANGED <<rooms, nextPid, games, scores, answers, reqs, client, manager, inbox, now>>

\* socket.on('disconnect'): the socket has left its socket.io rooms
SockDisconnect(c) ==
  /\ socks[c].connected
  /\ LET r == findRoomByCode(socks[c].roomCode)
         p == findPlayer(r, socks[c].spotifyId)
     IN emits' = IF socks[c].roomCode /= NoCode /\ socks[c].spotifyId /= ""
                    /\ r /= 0 /\ p.id /= 0
                 THEN << playerDisconnected(p, inGroup(socks[c].roomCode) \ {c}) >>
                 ELSE <<>>
  /\ socks' = [socks EXCEPT ![c] = NewSocket]
  /\ UNCHANGED <<store, reqs, client, manager, inbox, now>>

\* the game-control events a connection may send
controlEvents ==
  {"game-started", "new-question", "question-results", "scores-update",
   "game-ended", "pause-game", "resume-game"}

\* the name under which the server sends the event on
broadcastName(ev) ==
  CASE ev = "game-started" -> "game-starting"
    [] ev = "new-question" -> "question-start"
    [] ev = "question-results" -> "question-results"
    [] ev = "scores-update" -> "scores-updated"
    [] ev = "game-ended" -> "game-finished"
    [] ev = "pause-game" -> "game-paused"
    [] ev = "resume-game" -> "game-resumed"

\* socket.to(socket.roomCode) for these, io.to(socket.roomCode) for the others
toOthers(ev) == ev \in {"game-started", "new-question", "pause-game", "resume-game"}

\* the broadcast of a game-control handler; from records the connection whose
\* event set it off
controlBroadcast(c, ev) ==
  [ev |-> broadcastName(ev),
   to |-> IF toOthers(ev) THEN inGroup(socks[c].roomCode) \ {c}
                          ELSE inGroup(socks[c].roomCode),
   from |-> c]

\* socket.on('game-started') .. socket.on('resume-game'):
\* if (!socket.roomCode) return; then the broadcast
SockGameControl(c, ev) ==
  /\ socks[c].connected
  /\ emits' = IF socks[c].roomCode = NoCode THEN <<>> ELSE << controlBroadcast(c, ev) >>
  /\ UNCHANGED <<store, reqs, socks, client, manager, inbox, now>>

\* games: { where: { status: 'IN_PROGRESS' } } of the room
inProgressGames(r) ==
  {g \in 1..Len(games) : games[g].roomId = r /\ games[g].status = "IN_PROGRESS"}

\* answers: { where: { questionNumber } } of the game
answersFor(g, q) == {a \in answers : a.gameId = g /\ a.questionNumber = q}

\* io.to(socket.roomCode).emit('answer-received', {...}); gameId and
\* questionNumber record which game and question the handler counted
answerReceived(c, r, g, q) ==
  [ev |-> "answer-received", to |-> inGroup(socks[c].roomCode),
   playerId |-> socks[c].playerId, gameId |-> g, questionNumber |-> q,
   answersReceived |-> Cardinality(answersFor(g, q)) + 1,
   totalPlayers |-> Cardinality(roomPlayers(r)),
   allAnswered |-> Cardinality(answersFor(g, q)) + 1 >= Cardinality(roomPlayers(r))]

\* socket.on('answer-submitted'): room.games[0] is any in-progress game of the room
SockAnswerSubmitted(c, q) ==
  /\ socks[c].connected
  /\ LET r == findRoomByCode(socks[c].roomCode)
     IN IF socks[c].roomCode = NoCode
        THEN emits' = <<>>
        ELSE IF r = 0
        THEN emits' = <<>>
        ELSE IF inProgressGames(r) = {}
        THEN emits' = <<>>
        ELSE \E g \in inProgressGames(r) : emits' = << answerReceived(c, r, g, q) >>
  /\ UNCHANGED <<store, reqs, socks, client, manager, inbox, now>>

-----------------------------------------------------------------------------
(* The client's SocketManager and its reconnection *)

Tokens == {"t1", "t2"}
Devices == {"d1", "d2"}

\* localStorage 'inclew_reconnection' is empty
NoInfo ==
  [stored |-> FALSE, roomCode |-> NoCode, spotifyId |-> "", reconnectionToken |-> "",
   deviceId |-> "", lastActiveAt |-> 0, returned |-> "none"]

\* getOrCreateDeviceId: one id for each browser, kept across connections
deviceIdOf(c) == IF c = 1 THEN "d1" ELSE "d2"

\* SocketManager.joinRoom: the info it stores, then the join-room event, which
\* the server handles
ClientJoinRoom(c, code, spotifyId, token) ==
  /\ socks[c].connected
  /\ client' = [client EXCEPT ![c] =
                  [stored |-> TRUE, roomCode |-> code, spotifyId |-> spotifyId,
                   reconnectionToken |-> token, deviceId |-> deviceIdOf(c),
                   lastActiveAt |-> now, returned |-> "none"]]
  /\ joinRoomHandler(c, code, spotifyId)
  /\ UNCHANGED <<store, reqs, inbox, now, manager>>

reconnectEvent(c, info) ==
  [conn |-> c, roomCode |-> info.roomCode, spotifyId |-> info.spotifyId,
   reconnectionToken |-> info.reconnectionToken, deviceId |-> info.deviceId]

\* localStorage.removeItem('inclew_reconnection'); return false
infoRemoved == [NoInfo EXCEPT !.returned = "false"]

\* an attemptReconnection that sends whatever the age of the stored info
staleNever(info) == FALSE

\* Date.now() - reconnectionInfo.lastActiveAt > maxAge
stale(info) == now - info.lastActiveAt > maxAge

\* SocketManager.attemptReconnection; returned is what the last call since
\* joinRoom returned.
\* Nothing stored: false. Stale info: removed, false. Else the socket is
\* connected if it is not (connects: whether that connect succeeds; when it
\* fails the info is removed, false) and reconnect-to-room is sent, true.
AttemptReconnection(c, connects) ==
  /\ Len(inbox) < MaxInbox
  /\ IF ~client[c].stored
     THEN /\ client' = [client EXCEPT ![c].returned = "false"]
          /\ UNCHANGED <<socks, inbox>>
     ELSE IF stale(client[c])
     THEN /\ client' = [client EXCEPT ![c] = infoRemoved]
          /\ UNCHANGED <<socks, inbox>>
     ELSE IF ~socks[c].connected /\ ~connects
     THEN /\ client' = [client EXCEPT ![c] = infoRemoved]
          /\ UNCHANGED <<socks, inbox>>
     ELSE /\ socks' = [socks EXCEPT ![c] =
                         IF @.connected THEN @ ELSE [NewSocket EXCEPT !.connected = TRUE]]
          /\ inbox' = Append(inbox, reconnectEvent(c, client[c]))
          /\ client' = [client EXCEPT ![c].returned = "true"]
  /\ emits' = <<>>
  /\ UNCHANGED <<store, reqs, now, manager>>

\* a reconnect-to-room event sent with a token and a device id of the sender's
\* choice
ForgedReconnect(c, token, deviceId) ==
  /\ client[c].stored
  /\ socks[c].connected
  /\ Len(inbox) < MaxInbox
  /\ inbox' = Append(inbox, reconnectEvent(c,
                  [client[c] EXCEPT !.reconnectionToken = token, !.deviceId = deviceId]))
  /\ UNCHANGED <<store, reqs, socks, emits, client, manager, now>>

\* The server receives the event. setupGameSocket registers no listener for
\* 'reconnect-to-room': nothing is emitted and the socket is as it was.
ReceiveReconnect ==
  /\ inbox /= <<>>
  /\ inbox' = Tail(inbox)
  /\ emits' = <<>>
  /\ UNCHANGED <<store, reqs, socks, client, manager, now>>

Tick ==
  /\ now + TickMinutes <= MaxClock
  /\ now' = now + TickMinutes
  /\ UNCHANGED <<store, reqs, socks, emits, client, manager, inbox>>

-----------------------------------------------------------------------------
(* The client's SocketManager: connect, disconnect, on, off *)

\* the callback a component registers for a server event such as 'room-state'
Callbacks == {"cb"}

\* private socket = null; connectionStatus = 'disconnected'; eventListeners
\* empty. socket is the index in sockets of this.socket, 0 for null;
\* eventListeners is the array stored for the event; calls are the callbacks
\* the last server event invoked
NewManager ==
  [socket |-> 0, connectionStatus |-> "disconnected", eventListeners |-> <<>>,
   sockets |-> <<>>, calls |-> <<>>]

\* the socket io() returns: not connected yet, it connects on its own and,
\* with reconnection: true, again after a loss of the transport
newClientSocket(listeners) == [state |-> "connecting", attached |-> listeners]

\* this.socket?.connected
socketConnected ==
  manager.socket /= 0 /\ manager.sockets[manager.socket].state = "connected"

\* the sockets that are connected or on their way to it
liveSockets == {k \in DOMAIN manager.sockets : manager.sockets[k].state /= "closed"}

\* listeners.splice(listeners.indexOf(callback), 1), and Emitter.off(event, fn)
removeFirst(seq, x) ==
  IF \E i \in DOMAIN seq : seq[i] = x
  THEN LET i == CHOOSE j \in DOMAIN seq : seq[j] = x /\ \A l \in 1..(j - 1) : seq[l] /= x
       IN SubSeq(seq, 1, i - 1) \o SubSeq(seq, i + 1, Len(seq))
  ELSE seq

\* SocketManager.connect: resolves at once on a connected socket; otherwise
\* makes a socket and attaches the stored listeners to it (reattachListeners)
MgrConnect ==
  /\ IF socketConnected
     THEN UNCHANGED manager
     ELSE /\ Len(manager.sockets) < MaxSockets
          /\ manager' = [manager EXCEPT
                           !.connectionStatus = "connecting",
                           !.sockets = Append(@, newClientSocket(manager.eventListeners)),
                           !.socket = Len(manager.sockets) + 1]
  /\ UNCHANGED <<store, reqs, socks, emits, client, inbox, now>>

\* the socket's 'connect' event, first or after a loss of the transport
SocketConnected(k) ==
  /\ k \in DOMAIN manager.sockets
  /\ manager.sockets[k].state = "connecting"
  /\ manager' = [manager EXCEPT !.sockets[k].state = "connected",
                                !.connectionStatus = "connected"]
  /\ UNCHANGED <<store, reqs, socks, emits, client, inbox, now>>

\* the socket's 'connect_error' event; the socket tries again unless its
\* attempts are used up (givesUp)
SocketConnectError(k, givesUp) ==
  /\ k \in DOMAIN manager.sockets
  /\ manager.sockets[k].state = "connecting"
  /\ manager' = [manager EXCEPT
                   !.sockets[k].state = IF givesUp THEN "closed" ELSE @,
                   !.connectionStatus = "disconnected"]
  /\ UNCHANGED <<store, reqs, socks, emits, client, inbox, now>>

\* the socket's 'disconnect' event on a loss of the transport: the socket
\* object stays and reconnects
SocketDropped(k) ==
  /\ k \in DOMAIN manager.sockets
  /\ manager.sockets[k].state = "connected"
  /\ manager' = [manager EXCEPT !.sockets[k].state = "connecting",
                                !.connectionStatus = "disconnected"]
  /\ UNCHANGED <<store, reqs, socks, emits, client, inbox, now>>

\* SocketManager.disconnect
MgrDisconnect ==
  /\ IF manager.socket /= 0
     THEN manager' = [manager EXCEPT !.sockets[manager.socket].state = "closed",
                                     !.socket = 0,
                                     !.connectionStatus = "disconnected"]
     ELSE UNCHANGED manager
  /\ UNCHANGED <<store, reqs, socks, emits, client, inbox, now>>

\* SocketManager.on(event, callback)
MgrOn(cb) ==
  /\ Len(manager.eventListeners) < MaxListeners
  /\ \A k \in DOMAIN manager.sockets : Len(manager.sockets[k].attached) < MaxListeners
  /\ manager' = [manager EXCEPT
                   !.eventListeners = Append(@, cb),
                   !.sockets = IF socketConnected
                               THEN [@ EXCEPT ![manager.socket].attached = Append(@, cb)]
                               ELSE @]
  /\ UNCHANGED <<store, reqs, socks, emits, client, inbox, now>>

\* SocketManager.off(event, callback)
MgrOff(cb) ==
  /\ manager' = [manager EXCEPT
                   !.eventListeners = removeFirst(@, cb),
                   !.sockets = IF socketConnected
                               THEN [@ EXCEPT ![manager.socket].attached = removeFirst(@, cb)]
                               ELSE @]
  /\ UNCHANGED <<store, reqs, socks, emits, client, inbox, now>>

\* the server's event arrives on a connected socket: the socket invokes the
\* callbacks attached to it
ServerEvent(k) ==
  /\ k \in DOMAIN manager.sockets
  /\ manager.sockets[k].state = "connected"
  /\ manager' = [manager EXCEPT !.calls = manager.sockets[k].attached]
  /\ UNCHANGED <<store, reqs, socks, emits, client, inbox, now>>

-----------------------------------------------------------------------------
Init ==
  /\ rooms = <<>>
  /\ players = {}
  /\ nextPid = 1
  /\ games = <<>>
  /\ scores = {}
  /\ answers = {}
  /\ reqs = [s \in Slots |-> Idle]
  /\ socks = [c \in Conns |-> NewSocket]
  /\ emits = <<>>
  /\ client = [c \in Conns |-> NoInfo]
  /\ inbox = <<>>
  /\ now = 0
  /\ manager = NewManager

\* createRoom alone: code generation and the room transaction
NextCode ==
  \/ \E s \in Slots, i \in Idents : CreateRoomBegin(s, i)
  \/ \E s \in Slots, c \in DrawnCodes : GenerateAttempt(s, c)
  \/ \E s \in Slots : CreateRoomTx(s)
  \/ \E s \in Slots : Finish(s)

SpecCode == Init /\ [][NextCode]_vars

\* the code the first room gets in the specifications that are not about codes
FirstCode == [i \in 1..CodeLength |-> chars[1]]

\* the first room, created by "h"
FirstRoom(s) == rooms = <<>> /\ creating = {} /\ CreateRoomBegin(s, "h")

\* the first game of the room
FirstGame(s, i) == games = <<>> /\ starting = {} /\ StartRead(s, FirstCode, i)

\* the room registry and the live connection of one client
Next ==
  \/ \E s \in Slots : FirstRoom(s)
  \/ \E s \in Slots : GenerateAttempt(s, FirstCode)
  \/ \E s \in Slots : CreateRoomTx(s)
  \/ \E s \in Slots, c \in TargetCodes : GetRoom(s, c)
  \/ \E s \in Slots, c \in TargetCodes, i \in Idents : JoinRead(s, c, i)
  \/ \E s \in Slots : JoinCreate(s)
  \/ \E s \in Slots, c \in TargetCodes, i \in Idents : ShareData(s, c, i)
  \/ \E s \in Slots, c \in TargetCodes, i \in Idents : LeaveRead(s, c, i)
  \/ \E s \in Slots : LeaveWrite(s)
  \/ \E s \in Slots : Finish(s)
  \/ SockConnect(1)
  \/ \E k \in TargetCodes, i \in Idents : SockJoinRoom(1, k, i)
  \/ \E b \in BOOLEAN : SockPlayerReady(1, b)
  \/ SockDisconnect(1)

Spec == Init /\ [][Next]_vars

\* a game from its start to its end
NextGame ==
  \/ \E s \in Slots : FirstRoom(s)
  \/ \E s \in Slots : GenerateAttempt(s, FirstCode)
  \/ \E s \in Slots : CreateRoomTx(s)
  \/ \E s \in Slots, i \in Idents : JoinRead(s, FirstCode, i)
  \/ \E s \in Slots : JoinCreate(s)
  \/ \E s \in Slots, i \in Idents : ShareData(s, FirstCode, i)
  \/ \E s \in Slots, i \in Idents : FirstGame(s, i)
  \/ \E s \in Slots : StartTx(s)
  \/ \E g \in GameIds : GameBegins(g)
  \/ \E s \in Slots, g \in TargetGames, i \in Idents, q \in Questions, a \in Choices :
        SubmitRead(s, g, i, q, a)
  \/ \E s \in Slots : SubmitCheck(s)
  \/ \E s \in Slots : SubmitCreate(s)
  \/ \E s \in Slots, g \in TargetGames, i \in Idents, q \in Questions, k \in Choices :
        ResultsRead(s, g, i, q, k)
  \/ \E s \in Slots : ResultsTx(s)
  \/ \E s \in Slots, g \in TargetGames, i \in Idents : EndRead(s, g, i)
  \/ \E s \in Slots : EndTx(s)
  \/ \E s \in Slots : Finish(s)

SpecGame == Init /\ [][NextGame]_vars

\* the room registry with a game start
NextStart ==
  \/ \E s \in Slots : FirstRoom(s)
  \/ \E s \in Slots : GenerateAttempt(s, FirstCode)
  \/ \E s \in Slots : CreateRoomTx(s)
  \/ \E s \in Slots, c \in TargetCodes, i \in Idents : JoinRead(s, c, i)
  \/ \E s \in Slots : JoinCreate(s)
  \/ \E s \in Slots, c \in TargetCodes, i \in Idents : ShareData(s, c, i)
  \/ \E s \in Slots, c \in TargetCodes, i \in Idents : LeaveRead(s, c, i)
  \/ \E s \in Slots : LeaveWrite(s)
  \/ \E s \in Slots, c \in TargetCodes, i \in Idents : StartRead(s, c, i)
  \/ \E s \in Slots : StartTx(s)
  \/ \E s \in Slots : Finish(s)

SpecStart == Init /\ [][NextStart]_vars

\* live connections on a room with its members
NextSock ==
  \/ \E s \in Slots : FirstRoom(s)
  \/ \E s \in Slots : GenerateAttempt(s, FirstCode)
  \/ \E s \in Slots : CreateRoomTx(s)
  \/ \E s \in Slots, c \in TargetCodes, i \in Idents : JoinRead(s, c, i)
  \/ \E s \in Slots : JoinCreate(s)
  \/ \E s \in Slots : Finish(s)
  \/ \E c \in Conns : SockConnect(c)
  \/ \E c \in Conns, k \in TargetCodes, i \in Idents : SockJoinRoom(c, k, i)
  \/ \E c \in Conns, b \in BOOLEAN : SockPlayerReady(c, b)
  \/ \E c \in Conns : SockDisconnect(c)
  \/ \E c \in Conns, ev \in controlEvents : SockGameControl(c, ev)

SpecSock == Init /\ [][NextSock]_vars

\* games of one room started and ended one after another or together
NextRestart ==
  \/ \E s \in Slots : FirstRoom(s)
  \/ \E s \in Slots : GenerateAttempt(s, FirstCode)
  \/ \E s \in Slots : CreateRoomTx(s)
  \/ \E s \in Slots, i \in Idents : JoinRead(s, FirstCode, i)
  \/ \E s \in Slots : JoinCreate(s)
  \/ \E s \in Slots, i \in Idents : ShareData(s, FirstCode, i)
  \/ \E s \in Slots, c \in TargetCodes, i \in Idents : StartRead(s, c, i)
  \/ \E s \in Slots : StartTx(s)
  \/ \E s \in Slots, g \in TargetGames, i \in Idents : EndRead(s, g, i)
  \/ \E s \in Slots : EndTx(s)
  \/ \E s \in Slots : Finish(s)

SpecRestart == Init /\ [][NextRestart]_vars

\* answers given over REST and announced over the live connection
NextAnswer ==
  \/ \E s \in Slots : FirstRoom(s)
  \/ \E s \in Slots : GenerateAttempt(s, FirstCode)
  \/ \E s \in Slots : CreateRoomTx(s)
  \/ \E s \in Slots, i \in Idents : JoinRead(s, FirstCode, i)
  \/ \E s \in Slots : JoinCreate(s)
  \/ \E s \in Slots, i \in Idents : ShareData(s, FirstCode, i)
  \/ \E s \in Slots, i \in Idents : FirstGame(s, i)
  \/ \E s \in Slots : StartTx(s)
  \/ \E g \in GameIds : GameBegins(g)
  \/ \E s \in Slots, g \in GameIds, i \in Idents, q \in Questions, a \in Choices :
        SubmitRead(s, g, i, q, a)
  \/ \E s \in Slots : SubmitCheck(s)
  \/ \E s \in Slots : SubmitCreate(s)
  \/ \E s \in Slots : Finish(s)
  \/ SockConnect(1)
  \/ \E i \in Idents : SockJoinRoom(1, FirstCode, i)
  \/ \E q \in Questions : SockAnswerSubmitted(1, q)

SpecAnswer == Init /\ [][NextAnswer]_vars

\* one client that joins, loses its connection and reconnects
NextReconnect ==
  \/ \E s \in Slots : FirstRoom(s)
  \/ \E s \in Slots : GenerateAttempt(s, FirstCode)
  \/ \E s \in Slots : CreateRoomTx(s)
  \/ \E s \in Slots, i \in Idents : JoinRead(s, FirstCode, i)
  \/ \E s \in Slots : JoinCreate(s)
  \/ \E s \in Slots : Finish(s)
  \/ SockConnect(1)
  \/ \E i \in Idents, t \in Tokens : ClientJoinRoom(1, FirstCode, i, t)
  \/ SockDisconnect(1)
  \/ \E ok \in BOOLEAN : AttemptReconnection(1, ok)
  \/ \E t \in Tokens, d \in Devices : ForgedReconnect(1, t, d)
  \/ ReceiveReconnect
  \/ Tick

SpecReconnect == Init /\ [][NextReconnect]_vars

\* a third identity, for the specifications in which a room fills up
ThreeIdents == Idents \cup {"q"}

\* joins of three identities to one room while its game is started
NextJoin ==
  \/ \E s \in Slots : FirstRoom(s)
  \/ \E s \in Slots : GenerateAttempt(s, FirstCode)
  \/ \E s \in Slots : CreateRoomTx(s)
  \/ \E s \in Slots, i \in ThreeIdents : JoinRead(s, FirstCode, i)
  \/ \E s \in Slots : JoinCreate(s)
  \/ \E s \in Slots, i \in ThreeIdents : ShareData(s, FirstCode, i)
  \/ \E s \in Slots, i \in ThreeIdents : FirstGame(s, i)
  \/ \E s \in Slots : StartTx(s)
  \/ \E s \in Slots : Finish(s)

SpecJoin == Init /\ [][NextJoin]_vars

\* answers to a game of two members, sent by members and by an identity that
\* is none
NextSubmit ==
  \/ \E s \in Slots : FirstRoom(s)
  \/ \E s \in Slots : GenerateAttempt(s, FirstCode)
  \/ \E s \in Slots : CreateRoomTx(s)
  \/ \E s \in Slots, i \in Idents : JoinRead(s, FirstCode, i)
  \/ \E s \in Slots : JoinCreate(s)
  \/ \E s \in Slots, i \in Idents : ShareData(s, FirstCode, i)
  \/ \E s \in Slots, i \in Idents : FirstGame(s, i)
  \/ \E s \in Slots : StartTx(s)
  \/ \E g \in GameIds : GameBegins(g)
  \/ \E s \in Slots, g \in TargetGames, i \in ThreeIdents, q \in Questions, a \in Choices :
        SubmitRead(s, g, i, q, a)
  \/ \E s \in Slots : SubmitCheck(s)
  \/ \E s \in Slots : SubmitCreate(s)
  \/ \E s \in Slots, g \in TargetGames, i \in Idents : EndRead(s, g, i)
  \/ \E s \in Slots : EndTx(s)
  \/ \E s \in Slots : Finish(s)

SpecSubmit == Init /\ [][NextSubmit]_vars

\* results posted for the questions of one game in any order
NextReveal ==
  \/ \E s \in Slots : FirstRoom(s)
  \/ \E s \in Slots : GenerateAttempt(s, FirstCode)
  \/ \E s \in Slots : CreateRoomTx(s)
  \/ \E s \in Slots, i \in Idents : JoinRead(s, FirstCode, i)
  \/ \E s \in Slots : JoinCreate(s)
  \/ \E s \in Slots, i \in Idents : ShareData(s, FirstCode, i)
  \/ \E s \in Slots, i \in Idents : FirstGame(s, i)
  \/ \E s \in Slots : StartTx(s)
  \/ \E s \in Slots, g \in TargetGames, i \in Idents, q \in 1..MaxQuestion, k \in Choices :
        ResultsRead(s, g, i, q, k)
  \/ \E s \in Slots : ResultsTx(s)
  \/ \E s \in Slots : Finish(s)

SpecReveal == Init /\ [][NextReveal]_vars

\* one room whose host starts and ends games and leaves, left alone for hours,
\* and the expiry runs
NextCleanup ==
  \/ \E s \in Slots : FirstRoom(s)
  \/ \E s \in Slots : GenerateAttempt(s, FirstCode)
  \/ \E s \in Slots : CreateRoomTx(s)
  \/ \E s \in Slots, i \in Idents : JoinRead(s, FirstCode, i)
  \/ \E s \in Slots : JoinCreate(s)
  \/ \E s \in Slots, i \in Idents : ShareData(s, FirstCode, i)
  \/ \E s \in Slots : LeaveRead(s, FirstCode, "h")
  \/ \E s \in Slots : LeaveWrite(s)
  \/ \E s \in Slots : StartRead(s, FirstCode, "h")
  \/ \E s \in Slots : StartTx(s)
  \/ \E s \in Slots, g \in TargetGames : EndRead(s, g, "h")
  \/ \E s \in Slots : EndTx(s)
  \/ \E s \in Slots : Finish(s)
  \/ Sleep
  \/ \E s \in Slots : CleanupGames(s)
  \/ \E s \in Slots : CleanupRooms(s)

SpecCleanup == Init /\ [][NextCleanup]_vars

\* one client that joins, loses its connection and attempts to reconnect, as
\* time passes
NextAttempt ==
  \/ \E s \in Slots : FirstRoom(s)
  \/ \E s \in Slots : GenerateAttempt(s, FirstCode)
  \/ \E s \in Slots : CreateRoomTx(s)
  \/ \E s \in Slots : Finish(s)
  \/ SockConnect(1)
  \/ \E i \in Idents, t \in Tokens : ClientJoinRoom(1, FirstCode, i, t)
  \/ SockDisconnect(1)
  \/ \E ok \in BOOLEAN : AttemptReconnection(1, ok)
  \/ ReceiveReconnect
  \/ Tick

SpecAttempt == Init /\ [][NextAttempt]_vars

\* another code that generateUniqueRoomCode draws
SecondCode == [i \in 1..CodeLength |-> chars[NumChars]]

\* two rooms of one host and the live connections of that host
NextGroups ==
  \/ \E s \in Slots : CreateRoomBegin(s, "h")
  \/ \E s \in Slots, c \in {FirstCode, SecondCode} : GenerateAttempt(s, c)
  \/ \E s \in Slots : CreateRoomTx(s)
  \/ \E s \in Slots : Finish(s)
  \/ \E c \in Conns : SockConnect(c)
  \/ \E c \in Conns, r \in RoomIds : SockJoinRoom(c, rooms[r].code, "h")
  \/ \E c \in Conns : SockGameControl(c, "scores-update")
  \/ \E c \in Conns : SockDisconnect(c)

SpecGroups == Init /\ [][NextGroups]_vars

\* the SocketManager of one page: components register and remove a callback
\* and ask for the connection while sockets connect, drop and reconnect
NextManager ==
  \/ MgrConnect
  \/ \E k \in 1..MaxSockets : SocketConnected(k)
  \/ \E k \in 1..MaxSockets, g \in BOOLEAN : SocketConnectError(k, g)
  \/ \E k \in 1..MaxSockets : SocketDropped(k)
  \/ MgrDisconnect
  \/ \E cb \in Callbacks : MgrOn(cb)
  \/ \E cb \in Callbacks : MgrOff(cb)
  \/ \E k \in 1..MaxSockets : ServerEvent(k)

SpecManager == Init /\ [][NextManager]_vars

-----------------------------------------------------------------------------
(* Properties *)

DuplicateAnswer == "Answer already submitted for this question"

\* the request of slot s took a step
stepped(s) == reqs'[s] /= reqs[s]

\* a request arrived in slot s with this step
arrived(s) == reqs[s].pc = "idle" /\ reqs'[s].pc /= "idle"

sameTriple(s, t) ==
  /\ reqs[s].gameId = reqs[t].gameId
  /\ reqs[s].ident = reqs[t].ident
  /\ reqs[s].q = reqs[t].q

\* the submission of slot s got past the checks on the game and the player
pastGameChecks(s) ==
  /\ reqs[s].op = "answer" /\ reqs[s].pc = "done"
  /\ reqs[s].err \notin {"Game not found", "Game not in progress", "Player not in game"}

\* C1: for every (game, player, question) at most one answer row exists, and of
\* two submissions for the same triple that are processed at the same time one
\* succeeds and the other fails with DuplicateAnswer
C1_OneAnswerOneDuplicate ==
  /\ \A a, b \in answers :
       (a.gameId = b.gameId /\ a.playerId = b.playerId
        /\ a.questionNumber = b.questionNumber) => a = b
  /\ \A s, t \in Slots :
       (s /= t /\ pastGameChecks(s) /\ pastGameChecks(t) /\ sameTriple(s, t)
        /\ reqs[s].status = 200)
       => reqs[t].err = DuplicateAnswer

openGames(r) == {g \in GameIds : games[g].roomId = r /\ games[g].status /= "FINISHED"}

\* C2: a room has at most one game whose status is not FINISHED
C2_OneOpenGame == \A r \in RoomIds : Cardinality(openGames(r)) <= 1

hosts(r) == {p \in roomPlayers(r) : p.isHost}

\* C3: every room has at most one member with host = true, and that member (the
\* room's creator) keeps its row and its flag whatever joins, shares, leaves or
\* live-connection events happen
C3_OneHostKept ==
  \A r \in RoomIds :
    /\ Cardinality(hosts(r)) = 1
    /\ \A p \in hosts(r) : p.spotifyId = rooms[r].hostId

\* C3 witness: a member that is not the host has left the room
C3_NonHostLeft ==
  \E s \in Slots :
    /\ reqs[s].op = "leave" /\ reqs[s].pc = "done" /\ reqs[s].status = 200
    /\ reqs[s].roomId /= 0
    /\ reqs[s].ident /= rooms[reqs[s].roomId].hostId
    /\ findPlayer(reqs[s].roomId, reqs[s].ident).id = 0

\* C4: of the events a join-room emits, room-state to the joining connection
\* comes before player-connected to any other connection
C4_RoomStateFirst ==
  \A i, j \in DOMAIN emits :
    (emits[i].ev = "room-state" /\ emits[j].ev = "player-connected"
     /\ emits[j].to /= {}) => i < j

\* the event carries the identity, token and device id the client gave when it
\* joined, the identity has a membership in the room, and the info is fresh
validReconnect(m) ==
  /\ client[m.conn].stored
  /\ m = reconnectEvent(m.conn, client[m.conn])
  /\ findRoomByCode(toUpperCase(m.roomCode)) /= 0
  /\ findPlayer(findRoomByCode(toUpperCase(m.roomCode)), m.spotifyId).id /= 0
  /\ ~stale(client[m.conn])

attachedTo(sock, m) ==
  /\ sock.connected
  /\ sock.roomCode = toUpperCase(m.roomCode)
  /\ sock.spotifyId = m.spotifyId
  /\ sock.playerId = findPlayer(findRoomByCode(toUpperCase(m.roomCode)), m.spotifyId).id

errorSentTo(c, es) == \E i \in DOMAIN es : c \in es[i].to /\ es[i].ev /= "room-state"

\* C5: a reconnect-to-room the server has handled attached its connection to
\* the membership if the identity, token and device id are the membership's and
\* fresh, and else was rejected with an error and attached nothing
C5_ReconnectIff ==
  [][(inbox /= <<>> /\ inbox' = Tail(inbox)) =>
       LET m == Head(inbox)
       IN IF validReconnect(m)
          THEN attachedTo(socks'[m.conn], m)
          ELSE errorSentTo(m.conn, emits') /\ socks'[m.conn] = socks[m.conn]]_vars

members(r, spotifyId) == {p \in roomPlayers(r) : p.spotifyId = spotifyId}

\* C6: a join by an identity that is a member of the active room is answered
\* with the identifier of its membership and inserts nothing, in every status
\* of the room, and no (room, identity) has two membership rows
C6_RejoinIdempotent ==
  /\ [](\A r \in RoomIds : \A i \in Idents : Cardinality(members(r, i)) <= 1)
  /\ [][\A s \in Slots :
          (arrived(s) /\ reqs'[s].op = "join" /\ reqs'[s].roomId /= 0
           /\ rooms[reqs'[s].roomId].isActive
           /\ members(reqs'[s].roomId, reqs'[s].ident) /= {})
          => /\ reqs'[s].pc = "done" /\ reqs'[s].status = 200
             /\ \A p \in members(reqs'[s].roomId, reqs'[s].ident) : reqs'[s].out = p.id
             /\ players' = players]_vars

\* C6 witness: a member has joined again while the room was IN_GAME
C6_RejoinedInGame ==
  \E s \in Slots :
    /\ reqs[s].op = "join" /\ reqs[s].pc = "done" /\ reqs[s].status = 200
    /\ reqs[s].roomId /= 0
    /\ rooms[reqs[s].roomId].status = "IN_GAME"
    /\ \E p \in members(reqs[s].roomId, reqs[s].ident) : reqs[s].out = p.id /\ ~p.isHost

\* the score row of a player after results for q with this key, from the row
\* before and the player's answer rows for q
scoredRow(row, given, key) ==
  IF given = {} THEN row
  ELSE LET a == CHOOSE b \in given : TRUE
       IN [row EXCEPT !.totalScore = @ + (IF a.selectedAnswer = key THEN 100 ELSE 0),
                      !.correctAnswers = @ + (IF a.selectedAnswer = key THEN 1 ELSE 0),
                      !.totalAnswers = @ + 1]

\* C7: when results for (game, q, key) have been applied, the score row of every
\* player with an answer row for q is the row before plus 100 and one correct
\* answer if the answer is the key, plus one answer, and every other score row
\* of the game is as before
C7_ScoresAfterReveal ==
  [][\A s \in Slots :
       (reqs[s].op = "results" /\ reqs[s].pc = "tx" /\ reqs'[s].pc = "done"
        /\ reqs'[s].status = 200)
       => \A row \in scores :
            row.gameId = reqs[s].gameId =>
              scoredRow(row, findAnswer(row.gameId, row.playerId, reqs[s].q), reqs[s].key)
                \in scores']_vars

hostOf(r) == rooms[r].hostId

\* C8: once the host's leave has made the room inactive, a request of another
\* member against the room fails with RoomInactive or RoomNotFound and no row
\* of the store changes
C8_ClosedRoomRefuses ==
  [][\A s \in Slots :
       (arrived(s) /\ reqs'[s].op \in {"join", "getRoom", "share", "leave", "start"}
        /\ reqs'[s].roomId /= 0
        /\ ~rooms[reqs'[s].roomId].isActive
        /\ reqs'[s].ident /= hostOf(reqs'[s].roomId)
        /\ members(reqs'[s].roomId, reqs'[s].ident) /= {})
       => /\ reqs'[s].pc = "done"
          /\ reqs'[s].status \in {404, 410}
          /\ reqs'[s].err \in {"Room not found", "Room is no longer active"}
          /\ store' = store]_vars

\* C9: a createRoom in generateUniqueRoomCode has made fewer than maxAttempts
\* attempts; each of its steps leaves the loop or counts one attempt more and
\* writes nothing; it leaves the loop with a free code or, at maxAttempts, with
\* 'service unavailable'
C9_GenerationBounded ==
  /\ [](\A s \in Slots : reqs[s].pc = "gen" => reqs[s].attempts < maxAttempts)
  /\ [][\A s \in Slots :
          (reqs[s].pc = "gen" /\ stepped(s))
          => /\ rooms' = rooms /\ players' = players
             /\ IF reqs'[s].pc = "gen" THEN reqs'[s].attempts = reqs[s].attempts + 1
                ELSE IF reqs'[s].pc = "tx" THEN findRoomByCode(reqs'[s].code) = 0
                ELSE /\ reqs'[s].pc = "done" /\ reqs'[s].status = 503
                     /\ reqs'[s].attempts = maxAttempts
                     /\ reqs[s].attempts = maxAttempts - 1]_vars

\* C9 witness: a createRoom has given up after maxAttempts collisions
C9_Exhausted ==
  \E s \in Slots :
    /\ reqs[s].op = "createRoom" /\ reqs[s].pc = "done"
    /\ reqs[s].status = 503 /\ reqs[s].attempts = maxAttempts

\* C10: no two rooms share a code, and a createRoom that succeeded answers
\* with a code of four upper-case letters that its room, and no other, holds
C10_CodesUnique ==
  /\ \A r1, r2 \in RoomIds : rooms[r1].code = rooms[r2].code => r1 = r2
  /\ \A s \in Slots :
       (reqs[s].op = "createRoom" /\ reqs[s].pc = "done" /\ reqs[s].status = 200)
       => /\ isValidRoomCode(reqs[s].code)
          /\ \A r \in RoomIds : rooms[r].code = reqs[s].code <=> r = reqs[s].roomId

\* C10 witness: of two createRoom calls in flight together one has created its
\* room and the other, which drew the same code, was refused by the store
C10_SameCodeDrawn ==
  \E s, t \in Slots :
    /\ reqs[s].op = "createRoom" /\ reqs[s].pc = "done" /\ reqs[s].status = 200
    /\ reqs[t].op = "createRoom" /\ reqs[t].pc = "done" /\ reqs[t].status = 500

\* C11: a disconnect changes no stored row; when the connection was attached to
\* a membership, that row is still there with its flags and the one event is
\* player-disconnected, with the member's isHost, to the other connections of
\* the room; otherwise nothing is emitted
C11_DisconnectKeepsRows ==
  [][\A c \in Conns :
       (socks[c].connected /\ ~socks'[c].connected)
       => /\ store' = store
          /\ LET code == socks[c].roomCode
                 m == members(findRoomByCode(code), socks[c].spotifyId)
             IN IF m = {} THEN emits' = <<>>
                ELSE \A p \in m :
                       /\ p \in players'
                       /\ emits' = << [ev |-> "player-disconnected",
                                       to |-> inGroup(code) \ {c},
                                       playerId |-> p.id, isHost |-> p.isHost] >>]_vars

\* C11 witness: the host's connection has gone, another connection of the room
\* was told, and the host's row is still there
C11_HostDisconnected ==
  \E i \in DOMAIN emits :
    /\ emits[i].ev = "player-disconnected"
    /\ emits[i].to /= {}
    /\ emits[i].isHost
    /\ \E p \in players : p.id = emits[i].playerId /\ p.isHost /\ p.isReady

\* the score rows of a player in a game
scoresOf(sc, g, pid) == {row \in sc : row.gameId = g /\ row.playerId = pid}

\* C12: a startGame by the host of an active WAITING room with two members, both
\* ready, and no open game passes the checks; its transaction, the members
\* being as read, creates the game with one zeroed score row for each member
\* and sets the room to IN_GAME
C12_ReadyRoomStarts ==
  [][\A s \in Slots :
       /\ (/\ arrived(s) /\ reqs'[s].op = "start" /\ reqs'[s].roomId /= 0
           /\ rooms[reqs'[s].roomId].isActive
           /\ rooms[reqs'[s].roomId].status = "WAITING"
           /\ reqs'[s].ident = hostOf(reqs'[s].roomId)
           /\ Cardinality(roomPlayers(reqs'[s].roomId)) = 2
           /\ \A p \in roomPlayers(reqs'[s].roomId) : p.isReady
           /\ openGames(reqs'[s].roomId) = {})
          => reqs'[s].pc = "tx"
       /\ (/\ reqs[s].op = "start" /\ reqs[s].pc = "tx" /\ stepped(s)
           /\ {p.id : p \in roomPlayers(reqs[s].roomId)} = reqs[s].readPlayers)
          => /\ reqs'[s].status = 200
             /\ Len(games') = Len(games) + 1
             /\ rooms'[reqs[s].roomId].status = "IN_GAME"
             /\ \A pid \in reqs[s].readPlayers :
                  scoresOf(scores', Len(games'), pid) =
                    {[gameId |-> Len(games'), playerId |-> pid, totalScore |-> 0,
                      correctAnswers |-> 0, totalAnswers |-> 0]}]_vars

\* C13: the transaction of a startGame that succeeds leaves the game it creates
\* in status IN_PROGRESS and the room in status IN_GAME
C13_StartedInProgress ==
  [][\A s \in Slots :
       (reqs[s].op = "start" /\ reqs[s].pc = "tx" /\ reqs'[s].pc = "done"
        /\ reqs'[s].status = 200)
       => /\ games'[reqs'[s].out].status = "IN_PROGRESS"
          /\ rooms'[reqs[s].roomId].status = "IN_GAME"]_vars

\* C14: a startGame by the host who is the only member of the active WAITING
\* room, ready and with music data shared, and with no open game, is not
\* rejected
C14_SoloStartAllowed ==
  [][\A s \in Slots :
       (/\ arrived(s) /\ reqs'[s].op = "start" /\ reqs'[s].roomId /= 0
        /\ rooms[reqs'[s].roomId].isActive
        /\ rooms[reqs'[s].roomId].status = "WAITING"
        /\ reqs'[s].ident = hostOf(reqs'[s].roomId)
        /\ Cardinality(roomPlayers(reqs'[s].roomId)) = 1
        /\ \A p \in roomPlayers(reqs'[s].roomId) : p.isReady /\ p.musicData
        /\ openGames(reqs'[s].roomId) = {})
       => reqs'[s].pc = "tx"]_vars

\* the room a start, results or end request is about: 0 when there is none
targetRoom(q) ==
  IF q.op = "start" THEN q.roomId
  ELSE IF q.gameId \in GameIds THEN games[q.gameId].roomId
  ELSE 0

holdsHost(r, spotifyId) == \E p \in roomPlayers(r) : p.spotifyId = spotifyId /\ p.isHost

NotHost ==
  {"Only the host can start the game", "Only the host can submit results",
   "Only the host can end the game"}

\* C15: a startGame, revealResults or endGame by an identity that does not hold
\* the host flag in the target room is answered 403 NotHost at once and changes
\* no row of the store
C15_NotHostRejected ==
  [][\A s \in Slots :
       (/\ arrived(s) /\ reqs'[s].op \in {"start", "results", "end"}
        /\ targetRoom(reqs'[s]) /= 0
        /\ ~holdsHost(targetRoom(reqs'[s]), reqs'[s].ident))
       => /\ reqs'[s].pc = "done"
          /\ reqs'[s].status = 403
          /\ reqs'[s].err \in NotHost
          /\ store' = store]_vars

\* C15 witness: a member that is not the host asked to end a game in progress
\* that has an answer, and was refused
C15_MemberRefused ==
  \E s \in Slots :
    /\ reqs[s].op = "end" /\ reqs[s].pc = "done" /\ reqs[s].status = 403
    /\ reqs[s].gameId \in GameIds
    /\ games[reqs[s].gameId].status = "IN_PROGRESS"
    /\ members(games[reqs[s].gameId].roomId, reqs[s].ident) /= {}
    /\ answersFor(reqs[s].gameId, 1) /= {}

GameAlreadyActive == "Game already in progress"

\* C16: the transaction of a successful endGame leaves the game FINISHED with
\* its end time set and the room WAITING; and a startGame by the host that
\* arrives while the room is as that transaction left it (WAITING, with a
\* finished game) is not rejected as game-already-active
C16_EndAllowsRestart ==
  [][\A s \in Slots :
       /\ (/\ reqs[s].op = "end" /\ reqs[s].pc = "tx" /\ reqs'[s].pc = "done"
           /\ reqs'[s].status = 200)
          => /\ games'[reqs[s].gameId].status = "FINISHED"
             /\ games'[reqs[s].gameId].endedAt /= NoTime
             /\ rooms'[reqs[s].roomId].status = "WAITING"
       /\ (/\ arrived(s) /\ reqs'[s].op = "start" /\ reqs'[s].roomId /= 0
           /\ holdsHost(reqs'[s].roomId, reqs'[s].ident)
           /\ rooms[reqs'[s].roomId].status = "WAITING"
           /\ \E g \in GameIds : /\ games[g].roomId = reqs'[s].roomId
                                 /\ games[g].status = "FINISHED")
          => reqs'[s].err /= GameAlreadyActive]_vars

QuestionAlreadyResolved == "Question already resolved"

\* results have been applied for question q of game g
revealed(g, q) == g \in GameIds /\ games[g].currentQuestion = q

\* C17: a submitAnswer for question q that arrives when results for q have been
\* applied in the game is rejected with QuestionAlreadyResolved, and no request
\* that arrived so inserts an answer row
C17_LateAnswerRejected ==
  [][\A s \in Slots :
       (arrived(s) /\ reqs'[s].op = "answer" /\ revealed(reqs'[s].gameId, reqs'[s].q)
        /\ games[reqs'[s].gameId].status = "IN_PROGRESS"
        /\ members(games[reqs'[s].gameId].roomId, reqs'[s].ident) /= {})
       => /\ reqs'[s].pc = "done"
          /\ reqs'[s].err = QuestionAlreadyResolved
          /\ answers' = answers]_vars

\* C18: an answer row that results have resolved as correct is never changed
\* or removed afterwards
C18_ResolvedAnswerKept ==
  [][\A a \in answers : a.isCorrect => a \in answers']_vars

\* the players that have answered question q of game g when the event e of one
\* of them is handled: those with a row, and the sender
answeredWith(e) ==
  {a.playerId : a \in answersFor(e.gameId, e.questionNumber)} \cup {e.playerId}

\* C19: every answer-received broadcast reports as answersReceived the number
\* of players that have answered the question, the sender included, and as
\* totalPlayers the number of members of the room; answersReceived is at most
\* totalPlayers, and allAnswered is true exactly when every member has answered
C19_AnswerCountRight ==
  [][\A i \in DOMAIN emits' :
       (emits' /= emits /\ emits'[i].ev = "answer-received")
       => LET e == emits'[i]
              r == games[e.gameId].roomId
          IN /\ e.answersReceived = Cardinality(answeredWith(e))
             /\ e.totalPlayers = Cardinality(roomPlayers(r))
             /\ e.answersReceived <= e.totalPlayers
             /\ e.allAnswered <=> \A p \in roomPlayers(r) : p.id \in answeredWith(e)]_vars

\* the connection is attached to the membership with the host flag of its room
hostConnection(c) ==
  /\ socks[c].connected
  /\ \E p \in roomPlayers(findRoomByCode(socks[c].roomCode)) :
       p.id = socks[c].playerId /\ p.isHost

\* C20: a game-control broadcast that reaches another connection of the room is
\* emitted only for an event of the connection attached to the room's host
C20_ControlFromHostOnly ==
  [][\A i \in DOMAIN emits' :
       (emits' /= emits
        /\ emits'[i].ev \in {broadcastName(ev) : ev \in controlEvents}
        /\ emits'[i].to \ {emits'[i].from} /= {})
       => hostConnection(emits'[i].from)]_vars

\* an event of the name 'error' sent to connection c
errorEventTo(c, es) ==
  \E i \in DOMAIN es :
    /\ c \in es[i].to
    /\ es[i].ev \in {"error: Room not found", "error: Player not in room",
                     "error: Not connected to room",
                     "error: Failed to update ready status"}

\* C21: a room-scoped event of a connection that is attached to no room, which
\* the server does not act on, is answered with an error event to that
\* connection
C21_RejectedEventAnswered ==
  [][\A c \in Conns :
       (/\ socks[c].connected /\ socks[c].roomCode = NoCode
        /\ \E ev \in controlEvents : SockGameControl(c, ev))
       => errorEventTo(c, emits')]_vars

RoomFull == "Room is full"

\* C22: no room has more membership rows than its maxPlayers, however the joins
\* of new identities interleave, and a join by a new identity that arrives when
\* the active WAITING room has maxPlayers rows fails with RoomFull and inserts
\* nothing
C22_NeverOverfull ==
  /\ [](\A r \in RoomIds : Cardinality(roomPlayers(r)) <= rooms[r].maxPlayers)
  /\ [][\A s \in Slots :
          (/\ arrived(s) /\ reqs'[s].op = "join" /\ reqs'[s].roomId /= 0
           /\ rooms[reqs'[s].roomId].isActive
           /\ rooms[reqs'[s].roomId].status = "WAITING"
           /\ members(reqs'[s].roomId, reqs'[s].ident) = {}
           /\ Cardinality(roomPlayers(reqs'[s].roomId))
                >= rooms[reqs'[s].roomId].maxPlayers)
          => /\ reqs'[s].pc = "done" /\ reqs'[s].status = 409
             /\ reqs'[s].err = RoomFull
             /\ players' = players]_vars

\* C23: every member of the room of a game has exactly one score row of the
\* game, zeroed while no results have been applied, and no membership row is
\* inserted into a room whose status is STARTING or IN_GAME
C23_MembersHaveScores ==
  /\ [](\A g \in GameIds : \A p \in roomPlayers(games[g].roomId) :
          scoresOf(scores, g, p.id) = {newScore(g, p.id)})
  /\ [][\A p \in players' \ players :
          p.roomId \in RoomIds
          => rooms[p.roomId].status \notin {"STARTING", "IN_GAME"}]_vars

\* C24: a startGame whose transaction fails leaves every table as it was before
\* the attempt (no game row, no score row, the room's status untouched) and
\* answers 500 'Failed to start game'; and a startGame by the host of a room
\* with no open game and two or more members, all ready with music data, passes
\* the checks whatever failed before
C24_FailedStartRolledBack ==
  [][\A s \in Slots :
       /\ (/\ reqs[s].op = "start" /\ reqs[s].pc = "tx" /\ stepped(s)
           /\ reqs'[s].status /= 200)
          => /\ store' = store
             /\ reqs'[s].pc = "done" /\ reqs'[s].status = 500
             /\ reqs'[s].err = "Failed to start game"
       /\ (/\ arrived(s) /\ reqs'[s].op = "start" /\ reqs'[s].roomId /= 0
           /\ holdsHost(reqs'[s].roomId, reqs'[s].ident)
           /\ activeGames(reqs'[s].roomId) = {}
           /\ Cardinality(roomPlayers(reqs'[s].roomId)) >= 2
           /\ \A p \in roomPlayers(reqs'[s].roomId) : p.isReady /\ p.musicData)
          => reqs'[s].pc = "tx"]_vars

\* C24 witness: the transaction of a start has failed, and the room is WAITING
\* with no game
C24_StartFailed ==
  \E s \in Slots :
    /\ reqs[s].op = "start" /\ reqs[s].pc = "done" /\ reqs[s].status = 500
    /\ rooms[reqs[s].roomId].status = "WAITING"
    /\ rooms[reqs[s].roomId].isActive
    /\ games = <<>> /\ scores = {}

\* C25: a room whose status becomes IN_GAME was STARTING before: no step takes
\* a room from WAITING to IN_GAME
C25_StartingBeforeInGame ==
  [][\A r \in RoomIds :
       (rooms[r].status /= "IN_GAME" /\ rooms'[r].status = "IN_GAME")
       => rooms[r].status = "STARTING"]_vars

\* C26: a join-room by an identity with no membership in the active WAITING
\* room that is not full inserts a membership row of the identity that is not
\* host, attaches the connection to it and sends room-state to the connection
C26_SocketJoinCreatesMember ==
  [][\A c \in Conns, k \in TargetCodes, i \in Idents :
       LET r == findRoomByCode(toUpperCase(k))
       IN (/\ SockJoinRoom(c, k, i)
           /\ r /= 0
           /\ rooms[r].isActive /\ rooms[r].status = "WAITING"
           /\ Cardinality(roomPlayers(r)) < rooms[r].maxPlayers
           /\ members(r, i) = {})
          => /\ \E p \in players' \ players :
                  /\ p.roomId = r /\ p.spotifyId = i /\ ~p.isHost
                  /\ socks'[c].playerId = p.id
             /\ socks'[c].roomCode = rooms[r].code
             /\ \E n \in DOMAIN emits' : emits'[n].ev = "room-state" /\ c \in emits'[n].to]_vars

GameNotInProgress == "Game not in progress"

PlayerNotInGame == "Player not in game"

\* C27: a submitAnswer that arrives for a game whose status is not IN_PROGRESS
\* is answered 409 GameNotInProgress, one that arrives for a game in progress
\* from an identity with no membership in the game's room is answered 404
\* PlayerNotInGame; both are answered in the first step and no row of the store
\* changes
C27_SubmitRefused ==
  [][\A s \in Slots :
       (arrived(s) /\ reqs'[s].op = "answer" /\ reqs'[s].gameId \in GameIds)
       => LET g == reqs'[s].gameId
          IN /\ games[g].status /= "IN_PROGRESS"
                => /\ reqs'[s].pc = "done" /\ reqs'[s].status = 409
                   /\ reqs'[s].err = GameNotInProgress
                   /\ store' = store
             /\ (/\ games[g].status = "IN_PROGRESS"
                 /\ members(games[g].roomId, reqs'[s].ident) = {})
                => /\ reqs'[s].pc = "done" /\ reqs'[s].status = 404
                   /\ reqs'[s].err = PlayerNotInGame
                   /\ store' = store]_vars

\* C27 witness: an identity with no membership has been refused on a game in
\* progress in which a member has answered
C27_OutsiderRefused ==
  \E s \in Slots :
    /\ reqs[s].op = "answer" /\ reqs[s].pc = "done" /\ reqs[s].err = PlayerNotInGame
    /\ reqs[s].gameId \in GameIds
    /\ games[reqs[s].gameId].status = "IN_PROGRESS"
    /\ members(games[reqs[s].gameId].roomId, reqs[s].ident) = {}
    /\ answersFor(reqs[s].gameId, reqs[s].q) /= {}

\* C28: the write of a leaveRoom by the host sets the room inactive with status
\* FINISHED and changes nothing else; the write of a leaveRoom by a member that
\* is not the host, when it succeeds, deletes that member's row and nothing
\* else, and when it fails changes nothing; a leaveRoom by an identity with no
\* membership in the room is answered 404 in its first step and changes nothing
C28_LeaveEffects ==
  [][\A s \in Slots :
       /\ (reqs[s].op = "leave" /\ reqs[s].pc = "write" /\ stepped(s))
          => LET r == reqs[s].roomId
             IN IF holdsHost(r, reqs[s].ident)
                THEN /\ rooms' = [rooms EXCEPT ![r].isActive = FALSE,
                                               ![r].status = "FINISHED",
                                               ![r].updatedAt = now]
                     /\ players' = players
                     /\ <<nextPid, games, scores, answers>>' =
                          <<nextPid, games, scores, answers>>
                     /\ reqs'[s].status = 200
                ELSE IF reqs'[s].status = 200
                THEN /\ members(r, reqs[s].ident) /= {}
                     /\ players' = players \ members(r, reqs[s].ident)
                     /\ <<rooms, nextPid, games, scores, answers>>' =
                          <<rooms, nextPid, games, scores, answers>>
                ELSE store' = store
       /\ (/\ arrived(s) /\ reqs'[s].op = "leave" /\ reqs'[s].roomId /= 0
           /\ members(reqs'[s].roomId, reqs'[s].ident) = {})
          => /\ reqs'[s].pc = "done" /\ reqs'[s].status = 404
             /\ reqs'[s].err = "Player not in room"
             /\ store' = store]_vars

\* C28 witness: the host has left a room of two members: the room is inactive
\* and FINISHED and both rows are still there
C28_HostLeftRowsKept ==
  \E s \in Slots :
    /\ reqs[s].op = "leave" /\ reqs[s].pc = "done" /\ reqs[s].status = 200
    /\ reqs[s].roomId /= 0
    /\ reqs[s].ident = hostOf(reqs[s].roomId)
    /\ ~rooms[reqs[s].roomId].isActive
    /\ rooms[reqs[s].roomId].status = "FINISHED"
    /\ Cardinality(roomPlayers(reqs[s].roomId)) = 2

\* C29: a room whose status is FINISHED stays FINISHED: no operation moves it
\* to IN_GAME or back to WAITING
C29_FinishedIsFinal ==
  [][\A r \in RoomIds :
       rooms[r].status = "FINISHED" => rooms'[r].status = "FINISHED"]_vars

\* C30: after a successful revealResults for question q the game's current
\* question is q, and no step makes the current question of a game smaller
C30_PointerAdvances ==
  [][/\ \A s \in Slots :
          (reqs[s].op = "results" /\ reqs[s].pc = "tx" /\ reqs'[s].pc = "done"
           /\ reqs'[s].status = 200)
          => games'[reqs[s].gameId].currentQuestion = reqs[s].q
     /\ \A g \in GameIds :
          games'[g].currentQuestion >= games[g].currentQuestion]_vars

\* the rooms and the games that this step removes
removedRooms == {r \in RoomIds : rooms'[r] = DeletedRoom}

removedGames == {g \in GameIds : games'[g] = DeletedGame}

C32_ReconnectOnlyWhenFresh ==
  [][\A c \in Conns :
       /\ (Len(inbox') > Len(inbox) /\ inbox'[Len(inbox')].conn = c)
          => /\ client[c].stored
             /\ now - client[c].lastActiveAt <= maxAge
             /\ inbox'[Len(inbox')] = reconnectEvent(c, client[c])
             /\ client'[c].returned = "true"
       /\ (\E ok \in BOOLEAN : AttemptReconnection(c, ok))
          => /\ ~client[c].stored
                => /\ inbox' = inbox /\ client'[c].returned = "false"
                   /\ ~client'[c].stored
             /\ (client[c].stored /\ now - client[c].lastActiveAt > maxAge)
                => /\ inbox' = inbox /\ client'[c].returned = "false"
                   /\ ~client'[c].stored]_vars

\* C32 witness: info stored some time ago, and no more than maxAge ago, has
\* been sent on a socket that the attempt connected
C32_SentWhileFresh ==
  /\ inbox /= <<>>
  /\ client[inbox[1].conn].stored
  /\ client[inbox[1].conn].returned = "true"
  /\ now - client[inbox[1].conn].lastActiveAt >= TickMinutes
  /\ socks[inbox[1].conn].roomCode = NoCode

\* the answer rows of the player of a score row, in the game of that row
answersScored(sc) == {a \in answers : a.gameId = sc.gameId /\ a.playerId = sc.playerId}

\* C33: an answer is counted in its player's score at most once, however many
\* times results are revealed for its question: a score row counts no more
\* answers than the player has answer rows, no more correct answers, and no
\* more than 100 points for each
C33_AnswerScoredOnce ==
  \A sc \in scores :
    /\ sc.totalAnswers <= Cardinality(answersScored(sc))
    /\ sc.correctAnswers <= Cardinality(answersScored(sc))
    /\ sc.totalScore <= 100 * Cardinality(answersScored(sc))

\* C34: a room has a game that is not FINISHED exactly when the room's status
\* is STARTING or IN_GAME
C34_RoomStatusAgrees ==
  \A r \in RoomIds :
    (openGames(r) /= {}) <=> (rooms[r].status \in {"STARTING", "IN_GAME"})

\* C35: once a game is FINISHED nothing stored about it changes: its status,
\* end time and current question, its score rows and the correctness flags
\* of its answers stay as they are
C35_FinishedGameFrozen ==
  [][\A g \in GameIds :
       games[g].status = "FINISHED"
       => /\ games'[g] = games[g]
          /\ {sc \in scores' : sc.gameId = g} = {sc \in scores : sc.gameId = g}
          /\ \A a \in answers : a.gameId = g => a \in answers']_vars

\* C36: a live connection is in the broadcast group of no room other than the
\* room its attachment records
C36_OneBroadcastGroup ==
  \A c \in Conns :
    socks[c].connected => socks[c].joined \subseteq {socks[c].roomCode}

\* C37: once the connection is established, every callback registered with on
\* and not removed with off is attached to the manager's socket, as many times
\* as it is registered
C37_ListenersAttached ==
  socketConnected
  => \A cb \in Callbacks :
       Cardinality({i \in DOMAIN manager.eventListeners : manager.eventListeners[i] = cb})
         <= Cardinality({i \in DOMAIN manager.sockets[manager.socket].attached :
                           manager.sockets[manager.socket].attached[i] = cb})

\* C38: a server event invokes no callback that off has removed: every
\* callback it invokes is still registered
C38_RemovedNeverInvoked ==
  [][\A k \in DOMAIN manager.sockets :
       ServerEvent(k)
       => \A i \in DOMAIN manager'.calls :
            \E j \in DOMAIN manager.eventListeners :
              manager.eventListeners[j] = manager'.calls[i]]_vars

\* C39: the manager has at most one socket that is connected or connecting,
\* and connectionStatus is 'connected' exactly when this.socket is connected
C39_OneLiveSocket ==
  /\ Cardinality(liveSockets) <= 1
  /\ (manager.connectionStatus = "connected") <=> socketConnected

====
